---- MODULE Spec2Model ----
(***************************************************************************)
(* Bootstrap-token cache and error reporter of the govmomi Provisioner     *)
(* (pkg/cloud/vsphere/provisioner/govmomi/utils.go).                       *)
(*                                                                         *)
(* GetKubeadmToken is modelled as a process per reconciler worker (the     *)
(* domain of call; Spec starts one), cut at its remote calls: other        *)
(* writers of the Cluster object and the clock may act between two calls.  *)
(* The remote collaborators (machine lister, secret getter, token          *)
(* generator, API server) answer nondeterministically with every result    *)
(* their interface allows.  Spec holds the token path with one worker,     *)
(* SpecConcurrent the same path with two workers, SpecLive the reconciler  *)
(* that calls again after every error, SpecReport the error reporter.      *)
(*                                                                         *)
(* Time is counted in ticks, TicksPerSec ticks to the second, so that the  *)
(* truncation of time.Format(time.RFC3339) to whole seconds is visible.    *)
(* Durations are in seconds.                                               *)
(***************************************************************************)
EXTENDS Integers, Sequences, FiniteSets, TLC

(***************************************************************************)
(* Bounds of the model.                                                    *)
(***************************************************************************)
TicksPerSec == 2
MaxTime == 5
MaxCalls == 3
MaxOtherWrites == 1
MaxStatusWrites == 2

(***************************************************************************)
(* Program constants.  The time-to-live and the left time of the          *)
(* constants package are scaled down to a few seconds, the time-to-live    *)
(* the longer of the two.  The length of the identifier is that of         *)
(* k8s.io/cluster-bootstrap/token/api.                                     *)
(***************************************************************************)
KubeadmTokenTtl == 2
KubeadmTokenLeftTime == 1
BootstrapTokenIDBytes == 6


Nil == "nil"

(***************************************************************************)
(* Strings.  A token is the tuple of its characters.  An annotation or a   *)
(* secret field holding a time is the text time.Format wrote (a whole      *)
(* second), or some text that is no RFC3339 time, or the empty string a    *)
(* missing map key reads as.                                               *)
(***************************************************************************)
EmptyString == [fmt |-> "empty", sec |-> 0]
GarbageString == [fmt |-> "garbage", sec |-> 0]

\* time.Time.Format(time.RFC3339): the sub-second part is dropped.
FormatRFC3339(t) == [fmt |-> "RFC3339", sec |-> t \div TicksPerSec]

\* time.Parse(time.RFC3339, s): an error unless s is a formatted time.
ParseRFC3339(s) ==
    IF s.fmt = "RFC3339"
    THEN [err |-> Nil, t |-> s.sec * TicksPerSec]
    ELSE [err |-> "parsing time", t |-> 0]

IdA == <<"a", "b", "c", "d", "e", "f">>
IdB == <<"0", "7", "4", "0", "1", "b">>
SecretX == <<"0", "1", "2", "3", "4", "5", "6", "7", "8", "9", "a", "b", "c", "d", "e", "f">>
SecretY == <<"f", "7", "b", "4", "4", "f", "c", "a", "e", "2", "a", "2", "3", "6", "f", "f">>

\* The values tokenutil.GenerateBootstrapToken can return: "[a-z0-9]{6}.[a-z0-9]{16}".
GenTokens == {IdA \o <<".">> \o SecretX, IdA \o <<".">> \o SecretY, IdB \o <<".">> \o SecretX}

\* A token some earlier writer left in the annotation.
OldToken == <<"o", "l", "d", "t", "o", "k">> \o <<".">> \o SecretY

\* tokenutil.BootstrapTokenSecretName(tokenID)
BootstrapTokenSecretName(tokenID) == <<"bootstrap-token-">> \o tokenID

(***************************************************************************)
(* Objects.  A Go map with the keys the code uses is a record of optional  *)
(* values: <<>> for a missing key, <<v>> for a present one.                *)
(***************************************************************************)
NilAnnotations == [nil |-> TRUE, token |-> <<>>, expiry |-> <<>>, other |-> <<>>]

\* The annotations the Cluster object may carry before this code first runs.
InitialAnnotations ==
    { NilAnnotations,
      [nil |-> FALSE, token |-> <<OldToken>>, expiry |-> <<>>, other |-> <<>>],
      [nil |-> FALSE, token |-> <<OldToken>>, expiry |-> <<GarbageString>>, other |-> <<"v">>] }

NoStatus == [ErrorReason |-> Nil, ErrorMessage |-> Nil]

VARIABLES
    now,              \* the clock, in ticks
    apiCluster,       \* the Cluster object as the API server stores it
    apiMachine,       \* the Machine object as the API server stores it
    secrets,          \* the Secret objects of kube-system in the target cluster
    call,             \* per worker: the GetKubeadmToken invocation in progress
    ncalls,           \* invocations started so far
    otherWrites,      \* updates by other writers so far
    cacheSkew,        \* whole seconds from the minting to the caching of the cached token
    writeFailed,      \* the last invocation ended in a failed cache-write, none began since
    clusterV1alpha1,  \* pv.clusterV1alpha1: Nil or the client
    machine,          \* the Machine object the reconciler holds
    cluster,          \* the Cluster object the reconciler holds
    report            \* what the last Handle*Error call did

vars == <<now, apiCluster, apiMachine, secrets, call, ncalls, otherWrites, cacheSkew, writeFailed,
          clusterV1alpha1, machine, cluster, report>>

tokenVars == <<now, secrets, call, ncalls, otherWrites, cacheSkew, writeFailed>>
reportVars == <<apiMachine, clusterV1alpha1, machine, cluster, report>>

Idle ==
    [pc |-> "idle", cluster |-> <<>>, entry |-> 0, kubeconfig |-> "", token |-> <<>>,
     secret |-> <<>>, calls |-> <<>>, createArg |-> <<>>, updateArg |-> <<>>,
     fallback |-> <<>>, clusterArg |-> <<>>, createRes |-> "", updateRes |-> "", failed |-> "",
     before |-> {}, after |-> {}, mintSec |-> 0, skew |-> 0,
     given |-> <<>>, afterFailed |-> FALSE, storedBefore |-> <<>>,
     lookupRes |-> "", kubeconfigRes |-> "", generateRes |-> "",
     ret |-> [token |-> <<>>, err |-> Nil]]

\* CachedToken with the time-to-live where the left time belongs.
CachedTokenWrongBound(c, t) ==
    IF ~c.annotations.nil /\ Len(c.annotations.token) = 1
    THEN LET raw == IF Len(c.annotations.expiry) = 1 THEN c.annotations.expiry[1] ELSE EmptyString
             tokenexpirytime == ParseRFC3339(raw)
         IN  IF tokenexpirytime.err = Nil
                /\ tokenexpirytime.t - t > KubeadmTokenTtl * TicksPerSec
             THEN [hit |-> TRUE, token |-> c.annotations.token[1]]
             ELSE [hit |-> FALSE, token |-> <<>>]
    ELSE [hit |-> FALSE, token |-> <<>>]

\* CachedToken that does not look at the expiry.
CachedTokenAnyExpiry(c, t) ==
    IF ~c.annotations.nil /\ Len(c.annotations.token) = 1
    THEN [hit |-> TRUE, token |-> c.annotations.token[1]]
    ELSE [hit |-> FALSE, token |-> <<>>]

(***************************************************************************)
(* GetKubeadmToken, lines 28-37: the cache check.                          *)
(***************************************************************************)
CachedToken(c, t) ==
    IF ~c.annotations.nil /\ Len(c.annotations.token) = 1
    THEN LET raw == IF Len(c.annotations.expiry) = 1 THEN c.annotations.expiry[1] ELSE EmptyString
             tokenexpirytime == ParseRFC3339(raw)
         IN  IF tokenexpirytime.err = Nil
                /\ tokenexpirytime.t - t > KubeadmTokenLeftTime * TicksPerSec
             THEN [hit |-> TRUE, token |-> c.annotations.token[1]]
             ELSE [hit |-> FALSE, token |-> <<>>]
    ELSE [hit |-> FALSE, token |-> <<>>]

\* NewSecret that takes the secret from the separator on.
NewSecretKeepsSeparator(token, t) ==
    LET tokenID == SubSeq(token, 1, BootstrapTokenIDBytes)
        tokenSecret == SubSeq(token, BootstrapTokenIDBytes + 1, Len(token))
        expiration == FormatRFC3339(t + KubeadmTokenTtl * TicksPerSec)
    IN  [name |-> BootstrapTokenSecretName(tokenID),
         namespace |-> "kube-system",
         type |-> "bootstrap.kubernetes.io/token",
         data |-> [token_id |-> tokenID,
                   token_secret |-> tokenSecret,
                   expiration |-> expiration,
                   usage_bootstrap_authentication |-> "true",
                   usage_bootstrap_signing |-> "true",
                   auth_extra_groups |-> "system:bootstrappers:kubeadm:default-node-token",
                   description |-> "bootstrap token generated by cluster-api-provider-vsphere"]]

\* NewSecret whose expiration is the minting time, the time-to-live forgotten.
NewSecretNoTtl(token, t) ==
    LET tokenID == SubSeq(token, 1, BootstrapTokenIDBytes)
        tokenSecret == SubSeq(token, BootstrapTokenIDBytes + 2, Len(token))
    IN  [name |-> BootstrapTokenSecretName(tokenID),
         namespace |-> "kube-system",
         type |-> "bootstrap.kubernetes.io/token",
         data |-> [token_id |-> tokenID,
                   token_secret |-> tokenSecret,
                   expiration |-> FormatRFC3339(t),
                   usage_bootstrap_authentication |-> "true",
                   usage_bootstrap_signing |-> "true",
                   auth_extra_groups |-> "system:bootstrappers:kubeadm:default-node-token",
                   description |-> "bootstrap token generated by cluster-api-provider-vsphere"]]

(***************************************************************************)
(* createKubeadmToken, lines 80-101: the Secret built for a token at time  *)
(* t.                                                                      *)
(***************************************************************************)
NewSecret(token, t) ==
    LET tokenID == SubSeq(token, 1, BootstrapTokenIDBytes)
        tokenSecret == SubSeq(token, BootstrapTokenIDBytes + 2, Len(token))
        expiration == FormatRFC3339(t + KubeadmTokenTtl * TicksPerSec)
    IN  [name |-> BootstrapTokenSecretName(tokenID),
         namespace |-> "kube-system",
         type |-> "bootstrap.kubernetes.io/token",
         data |-> [token_id |-> tokenID,
                   token_secret |-> tokenSecret,
                   expiration |-> expiration,
                   usage_bootstrap_authentication |-> "true",
                   usage_bootstrap_signing |-> "true",
                   auth_extra_groups |-> "system:bootstrappers:kubeadm:default-node-token",
                   description |-> "bootstrap token generated by cluster-api-provider-vsphere"]]

\* ConflictFallback that updates with a Secret that lost its expiration.
ConflictFallbackOtherPayload(secret, outcome) ==
    CASE outcome = "ok" -> [pc |-> "cachewrite", fallback |-> <<>>, err |-> Nil]
      [] outcome = "exists" ->
            [pc |-> "update", fallback |-> <<[secret EXCEPT !.data.expiration = EmptyString]>>, err |-> Nil]
      [] OTHER -> [pc |-> "done", fallback |-> <<>>, err |-> "unable to create bootstrap token secret"]

\* ConflictFallback that takes "already exists" for a failure like any other.
ConflictFallbackNoUpdate(secret, outcome) ==
    CASE outcome = "ok" -> [pc |-> "cachewrite", fallback |-> <<>>, err |-> Nil]
      [] OTHER -> [pc |-> "done", fallback |-> <<>>, err |-> "unable to create bootstrap token secret"]

\* ConflictFallback that goes on to Update after any failure of Create.
ConflictFallbackAnyError(secret, outcome) ==
    CASE outcome = "ok" -> [pc |-> "cachewrite", fallback |-> <<>>, err |-> Nil]
      [] OTHER -> [pc |-> "update", fallback |-> <<secret>>, err |-> Nil]

\* ConflictFallback that goes on to the cache-write after a failure of Create.
ConflictFallbackIgnoresError(secret, outcome) ==
    CASE outcome = "exists" -> [pc |-> "update", fallback |-> <<secret>>, err |-> Nil]
      [] OTHER -> [pc |-> "cachewrite", fallback |-> <<>>, err |-> Nil]

\* ConflictFallback that tries Create again after a failure.
ConflictFallbackRetryCreate(secret, outcome) ==
    CASE outcome = "ok" -> [pc |-> "cachewrite", fallback |-> <<>>, err |-> Nil]
      [] outcome = "exists" -> [pc |-> "update", fallback |-> <<secret>>, err |-> Nil]
      [] OTHER -> [pc |-> "create", fallback |-> <<>>, err |-> Nil]

(***************************************************************************)
(* createKubeadmToken, lines 115-123: what follows the answer to Create.   *)
(***************************************************************************)
ConflictFallback(secret, outcome) ==
    CASE outcome = "ok" -> [pc |-> "cachewrite", fallback |-> <<>>, err |-> Nil]
      [] outcome = "exists" -> [pc |-> "update", fallback |-> <<secret>>, err |-> Nil]
      [] OTHER -> [pc |-> "done", fallback |-> <<>>, err |-> "unable to create bootstrap token secret"]

\* AnnotatedCopy whose expiry is the time of writing, the time-to-live forgotten.
AnnotatedCopyNoTtl(c, token, t) ==
    [c EXCEPT !.annotations =
        [nil |-> FALSE,
         token |-> <<token>>,
         expiry |-> <<FormatRFC3339(t)>>,
         other |-> c.annotations.other]]

\* AnnotatedCopy that starts from a new map of annotations.
AnnotatedCopyNewMap(c, token, t) ==
    [c EXCEPT !.annotations =
        [nil |-> FALSE,
         token |-> <<token>>,
         expiry |-> <<FormatRFC3339(t + KubeadmTokenTtl * TicksPerSec)>>,
         other |-> <<>>]]

\* AnnotatedCopy built as a new object, without the version of the Cluster read.
AnnotatedCopyNoVersion(c, token, t) ==
    [c EXCEPT !.resourceVersion = 0,
              !.annotations =
                 [nil |-> FALSE,
                  token |-> <<token>>,
                  expiry |-> <<FormatRFC3339(t + KubeadmTokenTtl * TicksPerSec)>>,
                  other |-> c.annotations.other]]

\* AnnotatedCopy that carries the version now stored with the fields read earlier.
AnnotatedCopyLatestVersion(c, token, t) ==
    [c EXCEPT !.resourceVersion = apiCluster.resourceVersion,
              !.annotations =
                 [nil |-> FALSE,
                  token |-> <<token>>,
                  expiry |-> <<FormatRFC3339(t + KubeadmTokenTtl * TicksPerSec)>>,
                  other |-> c.annotations.other]]

(***************************************************************************)
(* GetKubeadmToken, lines 58-64: the copy of the Cluster that carries the  *)
(* new token and its expiry.                                               *)
(***************************************************************************)
AnnotatedCopy(c, token, t) ==
    [c EXCEPT !.annotations =
        [nil |-> FALSE,
         token |-> <<token>>,
         expiry |-> <<FormatRFC3339(t + KubeadmTokenTtl * TicksPerSec)>>,
         other |-> c.annotations.other]]

\* CacheWriteResult that returns like the other failures do: no token.
CacheWriteResultNoToken(token, err) ==
    [token |-> IF err = Nil THEN token ELSE <<>>, err |-> err]

(***************************************************************************)
(* GetKubeadmToken, lines 65-69: what is returned after the Update of the  *)
(* Cluster answered err.                                                   *)
(***************************************************************************)
CacheWriteResult(token, err) == [token |-> token, err |-> err]

(***************************************************************************)
(* The API server.                                                         *)
(***************************************************************************)
SecretsNamed(store, name) == {s \in store : s.name = name}

\* The token a stored Secret stands for: identifier, separator, secret.
TokenOf(secret) == secret.data.token_id \o <<".">> \o secret.data.token_secret

\* Secrets(ns).Create: refused when an object of that name exists.
SecretsCreate(store, secret) == store \cup {secret}

\* Secrets(ns).Update: the stored object of that name is replaced.
SecretsUpdate(store, secret) == (store \ SecretsNamed(store, secret.name)) \cup {secret}

\* Clusters(ns).Update: the object is replaced and its version moves on.
ClustersUpdate(stored, c) == [c EXCEPT !.resourceVersion = stored.resourceVersion + 1, !.status = stored.status]

\* A result is handed to the reconciler at the instant the last step ends.
Returning == \E w \in DOMAIN call : call[w].pc = "done"

Finish(w, rec, token, err, failed) ==
    call' = [call EXCEPT ![w] = [rec EXCEPT !.pc = "done", !.ret = [token |-> token, err |-> err],
                                            !.failed = failed]]

(***************************************************************************)
(* GetKubeadmToken, lines 28-37: entry and cache check on the Cluster the  *)
(* reconciler read.  The function uses pv.lister, pv.k8sClient and         *)
(* pv.clusterV1alpha1 without a nil check: it is called on a Provisioner   *)
(* that has them.                                                          *)
(***************************************************************************)
GetKubeadmToken(w) ==
    /\ call[w].pc = "idle"
    /\ ~Returning
    /\ ncalls < MaxCalls
    /\ clusterV1alpha1 # Nil
    /\ ncalls' = ncalls + 1
    /\ LET c == apiCluster
           r == CachedToken(c, now)
           rec == [Idle EXCEPT !.cluster = <<c>>, !.entry = now, !.skew = cacheSkew,
                               !.given = <<c>>, !.afterFailed = writeFailed]
       IN  IF r.hit
           THEN Finish(w, rec, r.token, Nil, "")
           ELSE call' = [call EXCEPT ![w] = [rec EXCEPT !.pc = "lookup"]]
    /\ writeFailed' = FALSE
    /\ UNCHANGED <<now, apiCluster, secrets, otherWrites, cacheSkew>>
    /\ UNCHANGED reportVars

\* The lookup without the check for an empty list of machines.
LookupIgnoresEmpty(w) ==
    /\ call[w].pc = "lookup"
    /\ ~Returning
    /\ \E outcome \in {"err", "empty", "machines"} :
         LET rec == [call[w] EXCEPT !.calls = Append(@, "GetControlPlaneMachinesForCluster"),
                                    !.lookupRes = outcome]
         IN  IF outcome = "err"
             THEN Finish(w, rec, <<>>, "lister error", "lookup")
             ELSE call' = [call EXCEPT ![w] = [rec EXCEPT !.pc = "kubeconfig"]]
    /\ UNCHANGED <<now, apiCluster, secrets, ncalls, otherWrites, cacheSkew, writeFailed>>
    /\ UNCHANGED reportVars

(***************************************************************************)
(* Lines 38-46: the control plane machines of the cluster.                 *)
(***************************************************************************)
GetControlPlaneMachinesForCluster(w) ==
    /\ call[w].pc = "lookup"
    /\ ~Returning
    /\ \E outcome \in {"err", "empty", "machines"} :
         LET rec == [call[w] EXCEPT !.calls = Append(@, "GetControlPlaneMachinesForCluster"),
                                    !.lookupRes = outcome]
         IN  CASE outcome = "err" -> Finish(w, rec, <<>>, "lister error", "lookup")
               [] outcome = "empty" -> Finish(w, rec, <<>>, "No control plane nodes available", "lookup")
               [] OTHER -> call' = [call EXCEPT ![w] = [rec EXCEPT !.pc = "kubeconfig"]]
    /\ UNCHANGED <<now, apiCluster, secrets, ncalls, otherWrites, cacheSkew, writeFailed>>
    /\ UNCHANGED reportVars

(***************************************************************************)
(* Lines 48-51 and 188-194: the kubeconfig of the target cluster.          *)
(***************************************************************************)
GetKubeConfig(w) ==
    /\ call[w].pc = "kubeconfig"
    /\ ~Returning
    /\ \E outcome \in {"err", "valid", "malformed"} :
         LET rec == [call[w] EXCEPT !.calls = Append(@, "GetKubeConfig"),
                                    !.kubeconfigRes = outcome]
         IN  IF outcome = "err"
             THEN Finish(w, rec, <<>>, "secret get error", "kubeconfig")
             ELSE call' = [call EXCEPT ![w] = [rec EXCEPT !.pc = "mint", !.kubeconfig = outcome]]
    /\ UNCHANGED <<now, apiCluster, secrets, ncalls, otherWrites, cacheSkew, writeFailed>>
    /\ UNCHANGED reportVars

(***************************************************************************)
(* createKubeadmToken, lines 73-112: the token, its Secret, the client.    *)
(***************************************************************************)
createKubeadmToken(w) ==
    /\ call[w].pc = "mint"
    /\ ~Returning
    /\ \E generated \in ({"err", "empty"} \X {<<>>}) \cup ({"token"} \X GenTokens) :
         LET rec == [call[w] EXCEPT !.calls = Append(@, "GenerateBootstrapToken"),
                                    !.generateRes = generated[1]]
         IN  IF generated[1] \in {"err", "empty"}
             THEN Finish(w, rec, <<>>, "unable to create kubeadm token", "mint")
             ELSE LET token == generated[2]
                      minted == [rec EXCEPT !.token = token, !.secret = <<NewSecret(token, now)>>,
                                            !.mintSec = now \div TicksPerSec]
                  IN  IF call[w].kubeconfig = "malformed"
                      THEN Finish(w, minted, <<>>, "invalid kubeconfig", "mint")
                      ELSE call' = [call EXCEPT ![w] = [minted EXCEPT !.pc = "create"]]
    /\ UNCHANGED <<now, apiCluster, secrets, ncalls, otherWrites, cacheSkew, writeFailed>>
    /\ UNCHANGED reportVars

(***************************************************************************)
(* createKubeadmToken, lines 114-118: Create of the Secret.                *)
(***************************************************************************)
CreateSecret(w) ==
    /\ call[w].pc = "create"
    /\ ~Returning
    /\ LET secret == call[w].secret[1]
           existing == SecretsNamed(secrets, secret.name)
       IN  \E outcome \in {"ok", "exists", "err"} :
             /\ outcome = "ok" => existing = {}
             /\ outcome = "exists" => existing # {}
             /\ secrets' = IF outcome = "ok" THEN SecretsCreate(secrets, secret) ELSE secrets
             /\ LET next == ConflictFallback(secret, outcome)
                    rec == [call[w] EXCEPT !.calls = Append(@, "Secrets.Create"),
                                           !.createArg = <<secret>>,
                                           !.createRes = outcome,
                                           !.fallback = next.fallback,
                                           !.before = existing,
                                           !.after = SecretsNamed(secrets', secret.name)]
                IN  IF next.pc = "done"
                    THEN Finish(w, rec, <<>>, next.err, "mint")
                    ELSE call' = [call EXCEPT ![w] = [rec EXCEPT !.pc = next.pc]]
    /\ UNCHANGED <<now, apiCluster, ncalls, otherWrites, cacheSkew, writeFailed>>
    /\ UNCHANGED reportVars

(***************************************************************************)
(* createKubeadmToken, lines 120-125: Update of the Secret after "already  *)
(* exists".                                                                *)
(***************************************************************************)
UpdateSecret(w) ==
    /\ call[w].pc = "update"
    /\ ~Returning
    /\ LET secret == call[w].fallback[1]
           existing == SecretsNamed(secrets, secret.name)
       IN  \E outcome \in {"ok", "err"} :
             /\ secrets' = IF outcome = "ok" THEN SecretsUpdate(secrets, secret) ELSE secrets
             /\ LET rec == [call[w] EXCEPT !.calls = Append(@, "Secrets.Update"),
                                           !.updateArg = <<secret>>,
                                           !.updateRes = outcome,
                                           !.before = existing,
                                           !.after = SecretsNamed(secrets', secret.name)]
                IN  IF outcome = "ok"
                    THEN call' = [call EXCEPT ![w] = [rec EXCEPT !.pc = "cachewrite"]]
                    ELSE Finish(w, rec, <<>>, "unable to update bootstrap token secret", "mint")
    /\ UNCHANGED <<now, apiCluster, ncalls, otherWrites, cacheSkew, writeFailed>>
    /\ UNCHANGED reportVars

(***************************************************************************)
(* GetKubeadmToken, lines 53-70: the token is written onto a copy of the   *)
(* Cluster, the copy is sent to the API server, the token is returned.     *)
(***************************************************************************)
CacheToken(w) ==
    /\ call[w].pc = "cachewrite"
    /\ ~Returning
    /\ LET snapshot == call[w].cluster[1]
           ncluster == AnnotatedCopy(snapshot, call[w].token, now)
       IN  \E outcome \in {"ok", "conflict", "err"} :
             /\ outcome = "ok" => ncluster.resourceVersion = apiCluster.resourceVersion
             /\ outcome = "conflict" => ncluster.resourceVersion # apiCluster.resourceVersion
             /\ apiCluster' = IF outcome = "ok" THEN ClustersUpdate(apiCluster, ncluster) ELSE apiCluster
             /\ cacheSkew' = IF outcome = "ok"
                             THEN now \div TicksPerSec - call[w].mintSec
                             ELSE cacheSkew
             /\ writeFailed' = (outcome # "ok")
             /\ LET err == CASE outcome = "ok" -> Nil
                             [] outcome = "conflict" -> "the object has been modified"
                             [] OTHER -> "update error"
                    result == CacheWriteResult(call[w].token, err)
                    rec == [call[w] EXCEPT !.calls = Append(@, "Clusters.Update"),
                                           !.clusterArg = <<ncluster>>,
                                           !.storedBefore = <<apiCluster>>]
                IN  Finish(w, rec, result.token, result.err, IF err = Nil THEN "" ELSE "cachewrite")
    /\ UNCHANGED <<now, secrets, ncalls, otherWrites>>
    /\ UNCHANGED reportVars

\* The reconciler takes the result; the worker is free for the next pass.
Return(w) ==
    /\ call[w].pc = "done"
    /\ call' = [call EXCEPT ![w] = Idle]
    /\ UNCHANGED <<now, apiCluster, secrets, ncalls, otherWrites, cacheSkew, writeFailed>>
    /\ UNCHANGED reportVars

\* Time passes.
Tick ==
    /\ now < MaxTime
    /\ ~Returning
    /\ now' = now + 1
    /\ UNCHANGED <<apiCluster, secrets, call, ncalls, otherWrites, cacheSkew, writeFailed>>
    /\ UNCHANGED reportVars

\* Another writer updates a field of the Cluster this code does not touch.
OtherWriter ==
    /\ otherWrites < MaxOtherWrites
    /\ ~Returning
    /\ otherWrites' = otherWrites + 1
    /\ apiCluster' = [apiCluster EXCEPT !.resourceVersion = @ + 1, !.spec = 1 - @]
    /\ UNCHANGED <<now, secrets, call, ncalls, cacheSkew, writeFailed>>
    /\ UNCHANGED reportVars

Init ==
    /\ now = 0
    /\ \E a \in InitialAnnotations :
         apiCluster = [resourceVersion |-> 1, annotations |-> a, spec |-> 0, status |-> NoStatus]
    /\ apiMachine = [resourceVersion |-> 1, status |-> NoStatus]
    /\ secrets = {}
    /\ call = [w \in {"w1"} |-> Idle]
    /\ ncalls = 0
    /\ otherWrites = 0
    /\ cacheSkew = 0
    /\ writeFailed = FALSE
    /\ clusterV1alpha1 = "client"
    /\ machine = apiMachine
    /\ cluster = apiCluster
    /\ report = <<>>

Next ==
    \/ \E w \in DOMAIN call : GetKubeadmToken(w)
    \/ \E w \in DOMAIN call : GetControlPlaneMachinesForCluster(w)
    \/ \E w \in DOMAIN call : GetKubeConfig(w)
    \/ \E w \in DOMAIN call : createKubeadmToken(w)
    \/ \E w \in DOMAIN call : CreateSecret(w)
    \/ \E w \in DOMAIN call : UpdateSecret(w)
    \/ \E w \in DOMAIN call : CacheToken(w)
    \/ \E w \in DOMAIN call : Return(w)
    \/ Tick
    \/ OtherWriter

Spec == Init /\ [][Next]_vars

(***************************************************************************)
(* Two reconciler workers on the same Cluster, one invocation to each on   *)
(* average: their invocations may overlap at every remote call.  The       *)
(* Cluster is new, without annotations, and the clock is followed for one  *)
(* second.                                                                 *)
(***************************************************************************)
Workers == {"w1", "w2"}

InitConcurrent ==
    /\ now = MaxTime - TicksPerSec
    /\ apiCluster = [resourceVersion |-> 1, annotations |-> NilAnnotations, spec |-> 0, status |-> NoStatus]
    /\ apiMachine = [resourceVersion |-> 1, status |-> NoStatus]
    /\ secrets = {}
    /\ call = [w \in Workers |-> Idle]
    /\ ncalls = MaxCalls - Cardinality(Workers)
    /\ otherWrites = 0
    /\ cacheSkew = 0
    /\ writeFailed = FALSE
    /\ clusterV1alpha1 = "client"
    /\ machine = apiMachine
    /\ cluster = apiCluster
    /\ report = <<>>

SpecConcurrent == InitConcurrent /\ [][Next]_vars

(***************************************************************************)
(* The reconciliation loop that calls again after every error.  A pass     *)
(* that ended in an error is requeued and does not count against MaxCalls; *)
(* a result without error is taken as it is.  Every call returns, and a    *)
(* collaborator that is called again and again does not fail for ever.     *)
(* The loop is followed for one second of the clock and up to the first    *)
(* result it takes.                                                        *)
(***************************************************************************)
Requeue(w) ==
    /\ call[w].pc = "done"
    /\ call[w].ret.err # Nil
    /\ call' = [call EXCEPT ![w] = Idle]
    /\ ncalls' = ncalls - 1
    /\ UNCHANGED <<now, apiCluster, secrets, otherWrites, cacheSkew, writeFailed>>
    /\ UNCHANGED reportVars

Deliver(w) ==
    /\ call[w].ret.err = Nil
    /\ Return(w)

Reconciler == "w1"

InitLive ==
    /\ now = MaxTime - TicksPerSec
    /\ \E a \in InitialAnnotations :
         apiCluster = [resourceVersion |-> 1, annotations |-> a, spec |-> 0, status |-> NoStatus]
    /\ apiMachine = [resourceVersion |-> 1, status |-> NoStatus]
    /\ secrets = {}
    /\ call = [w \in {Reconciler} |-> Idle]
    /\ ncalls = MaxCalls - 1
    /\ otherWrites = 0
    /\ cacheSkew = 0
    /\ writeFailed = FALSE
    /\ clusterV1alpha1 = "client"
    /\ machine = apiMachine
    /\ cluster = apiCluster
    /\ report = <<>>

NextLive ==
    \/ GetKubeadmToken(Reconciler)
    \/ GetControlPlaneMachinesForCluster(Reconciler)
    \/ GetKubeConfig(Reconciler)
    \/ createKubeadmToken(Reconciler)
    \/ CreateSecret(Reconciler)
    \/ UpdateSecret(Reconciler)
    \/ CacheToken(Reconciler)
    \/ Requeue(Reconciler)
    \/ Deliver(Reconciler)
    \/ Tick
    \/ OtherWriter

Retried ==
    /\ WF_vars(GetKubeadmToken(Reconciler))
    /\ WF_vars(Requeue(Reconciler))
    /\ WF_vars(GetControlPlaneMachinesForCluster(Reconciler))
    /\ WF_vars(GetKubeConfig(Reconciler))
    /\ WF_vars(createKubeadmToken(Reconciler))
    /\ WF_vars(CreateSecret(Reconciler))
    /\ WF_vars(UpdateSecret(Reconciler))
    /\ WF_vars(CacheToken(Reconciler))

EventuallySucceeds ==
    /\ SF_vars(GetControlPlaneMachinesForCluster(Reconciler) /\ call'[Reconciler].lookupRes = "machines")
    /\ SF_vars(GetKubeConfig(Reconciler) /\ call'[Reconciler].kubeconfigRes = "valid")
    /\ SF_vars(createKubeadmToken(Reconciler) /\ call'[Reconciler].pc = "create")
    /\ SF_vars(CreateSecret(Reconciler) /\ call'[Reconciler].createRes # "err")
    /\ SF_vars(UpdateSecret(Reconciler) /\ call'[Reconciler].updateRes = "ok")
    /\ SF_vars(CacheToken(Reconciler) /\ apiCluster' # apiCluster)

SpecLive == InitLive /\ [][NextLive]_vars /\ Retried /\ EventuallySucceeds

(***************************************************************************)
(* The error reporter.                                                     *)
(***************************************************************************)
\* apierrors.MachineError and apierrors.ClusterError values the callers build.
MachineErrors ==
    { [Reason |-> "CreateError", Message |-> "cannot create the VM"],
      [Reason |-> "InvalidConfiguration", Message |-> "no datacenter"] }

ClusterErrors ==
    { [Reason |-> "CreateError", Message |-> "cannot reach vCenter"],
      [Reason |-> "InvalidConfiguration", Message |-> "no provider spec"] }

EventActions == {"", "Create", "Delete"}

\* ReportError that returns what is left once the status carries the error.
ReportErrorReturnsNothing(target, err, eventAction, client) ==
    [statusUpdates |->
        IF client # Nil
        THEN <<[target EXCEPT !.status = [ErrorReason |-> err.Reason, ErrorMessage |-> err.Message]]>>
        ELSE <<>>,
     events |->
        IF eventAction # ""
        THEN <<[object |-> target, type |-> "Warning", reason |-> "Failed" \o eventAction,
                message |-> err.Reason]>>
        ELSE <<>>,
     log |-> <<err.Message>>,
     target |-> target,
     ret |-> IF client # Nil THEN [Reason |-> Nil, Message |-> Nil] ELSE err]

\* ReportError that emits its event whatever the event action.
ReportErrorAlwaysEvent(target, err, eventAction, client) ==
    [statusUpdates |->
        IF client # Nil
        THEN <<[target EXCEPT !.status = [ErrorReason |-> err.Reason, ErrorMessage |-> err.Message]]>>
        ELSE <<>>,
     events |-> <<[object |-> target, type |-> "Warning", reason |-> "Failed" \o eventAction,
                   message |-> err.Reason]>>,
     log |-> <<err.Message>>,
     target |-> target,
     ret |-> err]

(***************************************************************************)
(* HandleMachineError, lines 132-147, and HandleClusterError, lines        *)
(* 153-168: what the handler sends, emits, logs and returns for a target,  *)
(* an error and an event action, given pv.clusterV1alpha1.                 *)
(***************************************************************************)
ReportError(target, err, eventAction, client) ==
    [statusUpdates |->
        IF client # Nil
        THEN <<[target EXCEPT !.status = [ErrorReason |-> err.Reason, ErrorMessage |-> err.Message]]>>
        ELSE <<>>,
     events |->
        IF eventAction # ""
        THEN <<[object |-> target, type |-> "Warning", reason |-> "Failed" \o eventAction,
                message |-> err.Reason]>>
        ELSE <<>>,
     log |-> <<err.Message>>,
     target |-> target,
     ret |-> err]

\* Machines(ns).UpdateStatus / Clusters(ns).UpdateStatus: only the status is
\* taken from the object sent, and the version moves on.
UpdateStatus(stored, sent) ==
    [stored EXCEPT !.status = sent.status, !.resourceVersion = @ + 1]

HandleMachineError ==
    \E err \in MachineErrors, eventAction \in EventActions, outcome \in {"ok", "conflict", "err"} :
        LET done == ReportError(machine, err, eventAction, clusterV1alpha1)
            sent == Len(done.statusUpdates) = 1
        IN  /\ ~sent => outcome = "err"
            /\ outcome = "ok" => /\ machine.resourceVersion = apiMachine.resourceVersion
                                 /\ apiMachine.resourceVersion <= MaxStatusWrites
            /\ outcome = "conflict" => machine.resourceVersion # apiMachine.resourceVersion
            /\ apiMachine' = IF sent /\ outcome = "ok"
                             THEN UpdateStatus(apiMachine, done.statusUpdates[1])
                             ELSE apiMachine
            /\ machine' = done.target
            /\ report' = <<[kind |-> "machine", client |-> clusterV1alpha1, target |-> machine,
                            err |-> err, eventAction |-> eventAction, outcome |-> outcome,
                            statusUpdates |-> done.statusUpdates, events |-> done.events,
                            log |-> done.log, targetAfter |-> done.target, ret |-> done.ret]>>
            /\ UNCHANGED <<apiCluster, cluster, clusterV1alpha1>>
            /\ UNCHANGED tokenVars

HandleClusterError ==
    \E err \in ClusterErrors, eventAction \in EventActions, outcome \in {"ok", "conflict", "err"} :
        LET done == ReportError(cluster, err, eventAction, clusterV1alpha1)
            sent == Len(done.statusUpdates) = 1
        IN  /\ ~sent => outcome = "err"
            /\ outcome = "ok" => /\ cluster.resourceVersion = apiCluster.resourceVersion
                                 /\ apiCluster.resourceVersion <= MaxStatusWrites
            /\ outcome = "conflict" => cluster.resourceVersion # apiCluster.resourceVersion
            /\ apiCluster' = IF sent /\ outcome = "ok"
                             THEN UpdateStatus(apiCluster, done.statusUpdates[1])
                             ELSE apiCluster
            /\ cluster' = done.target
            /\ report' = <<[kind |-> "cluster", client |-> clusterV1alpha1, target |-> cluster,
                            err |-> err, eventAction |-> eventAction, outcome |-> outcome,
                            statusUpdates |-> done.statusUpdates, events |-> done.events,
                            log |-> done.log, targetAfter |-> done.target, ret |-> done.ret]>>
            /\ UNCHANGED <<apiMachine, machine, clusterV1alpha1>>
            /\ UNCHANGED tokenVars

\* The reconciler reads the objects again on its next pass.
RefreshMachine ==
    /\ machine # apiMachine
    /\ machine' = apiMachine
    /\ UNCHANGED <<apiCluster, apiMachine, cluster, clusterV1alpha1, report>>
    /\ UNCHANGED tokenVars

RefreshCluster ==
    /\ cluster # apiCluster
    /\ cluster' = apiCluster
    /\ UNCHANGED <<apiCluster, apiMachine, machine, clusterV1alpha1, report>>
    /\ UNCHANGED tokenVars

\* The Provisioner with or without a client for the cluster API ("such as
\* during cluster installation").
InitReport ==
    /\ now = 0
    /\ apiCluster = [resourceVersion |-> 1, annotations |-> NilAnnotations, spec |-> 0, status |-> NoStatus]
    /\ apiMachine = [resourceVersion |-> 1, status |-> NoStatus]
    /\ secrets = {}
    /\ call = [w \in {"w1"} |-> Idle]
    /\ ncalls = 0
    /\ otherWrites = 0
    /\ cacheSkew = 0
    /\ writeFailed = FALSE
    /\ clusterV1alpha1 \in {Nil, "client"}
    /\ machine = apiMachine
    /\ cluster = apiCluster
    /\ report = <<>>

NextReport ==
    \/ HandleMachineError
    \/ HandleClusterError
    \/ RefreshMachine
    \/ RefreshCluster

SpecReport == InitReport /\ [][NextReport]_vars

(***************************************************************************)
(* The properties.                                                         *)
(***************************************************************************)
Done(w) == call[w].pc = "done"
Snapshot(w) == call[w].cluster[1]
Count(calls, op) == Cardinality({i \in 1..Len(calls) : calls[i] = op})

\* The Cluster carries a token and an expiry that reads as an RFC3339 time
\* more than the left time after t.
HasLiveCache(c, t) ==
    /\ ~c.annotations.nil
    /\ Len(c.annotations.token) = 1
    /\ Len(c.annotations.expiry) = 1
    /\ c.annotations.expiry[1].fmt = "RFC3339"
    /\ c.annotations.expiry[1].sec * TicksPerSec - t > KubeadmTokenLeftTime * TicksPerSec

NoRemoteCall(w) ==
    /\ call[w].calls = <<>>
    /\ call[w].createArg = <<>>
    /\ call[w].updateArg = <<>>
    /\ call[w].clusterArg = <<>>

\* C1: an invocation on a Cluster with a cached token whose expiry parses and
\* lies more than the left time ahead returns that token, no error, and has
\* made no remote call at all.
C1_CacheHit ==
    \A w \in DOMAIN call :
        Done(w) /\ HasLiveCache(Snapshot(w), call[w].entry) =>
            /\ call[w].ret = [token |-> Snapshot(w).annotations.token[1], err |-> Nil]
            /\ NoRemoteCall(w)

C1_Witness ==
    \E w \in DOMAIN call :
        /\ Done(w)
        /\ HasLiveCache(Snapshot(w), call[w].entry)
        /\ call[w].ret.token = Snapshot(w).annotations.token[1]
        /\ call[w].ret.token \in GenTokens

Minted(w) == IF call[w].token = <<>> THEN 0 ELSE Count(call[w].calls, "GenerateBootstrapToken")
CacheWrites(w) == Count(call[w].calls, "Clusters.Update")

\* C2 as claimed: every invocation on a Cluster without a live cached token
\* mints exactly one token and attempts exactly one cache-write.
C2_AsClaimed ==
    \A w \in DOMAIN call :
        Done(w) /\ ~HasLiveCache(Snapshot(w), call[w].entry) =>
            /\ Minted(w) = 1
            /\ CacheWrites(w) = 1
            /\ call[w].ret.err # "parsing time"

\* C2, amended: an invocation on a Cluster without a live cached token (none,
\* expired or within the left time, expiry missing or unparsable) goes on to
\* the control-plane lookup, never returns the parse error, mints at most one
\* token and attempts at most one cache-write; it mints exactly one and
\* attempts exactly one cache-write when the lookup, the kubeconfig retrieval
\* and the mint/persist step succeed.
C2_CacheMiss ==
    \A w \in DOMAIN call :
        Done(w) /\ ~HasLiveCache(Snapshot(w), call[w].entry) =>
            /\ call[w].calls # <<>>
            /\ call[w].calls[1] = "GetControlPlaneMachinesForCluster"
            /\ call[w].ret.err # "parsing time"
            /\ Count(call[w].calls, "GenerateBootstrapToken") <= 1
            /\ CacheWrites(w) <= 1
            /\ call[w].failed \notin {"lookup", "kubeconfig", "mint"} =>
                  Minted(w) = 1 /\ CacheWrites(w) = 1

\* An expired cache entry was found and a token minted and cached in its place.
C2_Witness ==
    \E w \in DOMAIN call :
        /\ Done(w)
        /\ Len(Snapshot(w).annotations.token) = 1
        /\ Len(Snapshot(w).annotations.expiry) = 1
        /\ Snapshot(w).annotations.expiry[1].fmt = "RFC3339"
        /\ ~HasLiveCache(Snapshot(w), call[w].entry)
        /\ Minted(w) = 1
        /\ CacheWrites(w) = 1

\* C3: when the Secret was stored and the Update of the Cluster failed, the
\* invocation returns the token whose Secret it has just stored.
C3_BestEffortCacheWrite ==
    \A w \in DOMAIN call :
        Done(w) /\ call[w].failed = "cachewrite" =>
            /\ call[w].ret.token # <<>>
            /\ \E s \in call[w].after : call[w].ret.token = TokenOf(s)

C3_Witness ==
    \E w \in DOMAIN call :
        /\ Done(w)
        /\ call[w].failed = "cachewrite"
        /\ call[w].ret.token \in GenTokens
        /\ call[w].ret.err = "the object has been modified"

\* C4 as claimed: an error is returned only when the lookup, the kubeconfig
\* retrieval or the mint/persist step failed; a failed cache-write returns nil.
C4_AsClaimed ==
    \A w \in DOMAIN call :
        Done(w) =>
            /\ call[w].ret.err # Nil => call[w].failed \in {"lookup", "kubeconfig", "mint"}
            /\ call[w].failed = "cachewrite" => call[w].ret.err = Nil

SecretOfToken(token) ==
    SecretsNamed(secrets, BootstrapTokenSecretName(SubSeq(token, 1, BootstrapTokenIDBytes)))

\* C5 as claimed: whenever a token is returned, its Secret's expiration is
\* more than the left time after the time of return.
C5_AsClaimed ==
    \A w \in DOMAIN call :
        Done(w) /\ call[w].ret.token # <<>> =>
            \E s \in SecretOfToken(call[w].ret.token) :
                s.data.expiration.sec * TicksPerSec - now > KubeadmTokenLeftTime * TicksPerSec

\* C5, amended: whenever a cached token is returned, the annotation's expiry
\* is more than the left time after the time of return, and the expiration
\* in the token's Secret is no earlier than that expiry less the whole
\* seconds that passed between the minting and the caching; whenever a fresh
\* token is returned, its Secret's expiration is no later than the expiry
\* written to the annotation.
C5_RemainingLife ==
    \A w \in DOMAIN call :
        Done(w) /\ call[w].ret.token # <<>> =>
            IF call[w].calls = <<>>
            THEN LET expiry == Snapshot(w).annotations.expiry[1].sec
                 IN  /\ expiry * TicksPerSec - now > KubeadmTokenLeftTime * TicksPerSec
                     /\ call[w].skew >= 0
                     /\ \E s \in SecretOfToken(call[w].ret.token) :
                           s.data.expiration.sec >= expiry - call[w].skew
            ELSE /\ call[w].createArg[1].data.expiration.sec
                       <= call[w].clusterArg[1].annotations.expiry[1].sec
                 /\ \E s \in SecretOfToken(call[w].ret.token) :
                       s.data.expiration.sec >= call[w].createArg[1].data.expiration.sec

\* A cached token is returned whose Secret has no more than the left time to live.
C5_Witness ==
    \E w \in DOMAIN call :
        /\ Done(w)
        /\ call[w].calls = <<>>
        /\ call[w].ret.token \in GenTokens
        /\ call[w].skew > 0
        /\ \A s \in SecretOfToken(call[w].ret.token) :
              s.data.expiration.sec * TicksPerSec - now <= KubeadmTokenLeftTime * TicksPerSec

\* The create-then-update step has succeeded and the cache-write is next.
Upserted(w) == call[w].pc = "cachewrite"

\* C6: when the store already holds, under the Secret's name, exactly the
\* Secret that is upserted (an earlier upsert of the same identifier, secret
\* and expiration), the upsert leaves exactly that one Secret under the name.
C6_UpsertIdempotent ==
    \A w \in DOMAIN call :
        Upserted(w) /\ call[w].before = {call[w].secret[1]} =>
            /\ call[w].after = call[w].before
            /\ Cardinality(call[w].after) = 1

C6_Witness ==
    \E w \in DOMAIN call :
        /\ Upserted(w)
        /\ call[w].before = {call[w].secret[1]}
        /\ call[w].updateRes = "ok"
        /\ SecretsNamed(secrets, call[w].secret[1].name) = {call[w].secret[1]}

Settled(w) == call[w].pc \in {"cachewrite", "done"}

\* C7: after "already exists" exactly one Update is issued, with the Secret
\* that Create was called with, and if it succeeds the step returns no error;
\* after a successful Create no Update is issued.
C7_ConflictHandling ==
    \A w \in DOMAIN call :
        Settled(w) =>
            /\ call[w].createRes = "exists" =>
                  /\ Count(call[w].calls, "Secrets.Update") = 1
                  /\ call[w].updateArg = call[w].createArg
                  /\ call[w].updateRes = "ok" => call[w].failed # "mint"
            /\ call[w].createRes = "ok" =>
                  /\ Count(call[w].calls, "Secrets.Update") = 0
                  /\ call[w].failed # "mint"

C7_Witness ==
    \E w \in DOMAIN call :
        /\ Upserted(w)
        /\ call[w].createRes = "exists"
        /\ call[w].updateRes = "ok"
        /\ call[w].updateArg = call[w].createArg

\* C8: a Create error other than "already exists" is returned without any
\* Update; an Update error after "already exists" is returned; either way the
\* invocation returns no token, an error, and does not attempt the cache-write.
C8_PersistenceErrors ==
    \A w \in DOMAIN call :
        /\ call[w].createRes = "err" =>
              /\ Done(w)
              /\ Count(call[w].calls, "Secrets.Update") = 0
        /\ call[w].updateRes = "err" => Done(w)
        /\ call[w].createRes = "err" \/ call[w].updateRes = "err" =>
              /\ call[w].ret.token = <<>>
              /\ call[w].ret.err # Nil
              /\ CacheWrites(w) = 0

C8_Witness ==
    \E w \in DOMAIN call :
        /\ Done(w)
        /\ call[w].createRes = "exists"
        /\ call[w].updateRes = "err"
        /\ call[w].ret.err = "unable to update bootstrap token secret"

\* C9: the handler returns the error it was given, whatever became of the
\* status update and of the event.
C9_ReturnsTheError ==
    \A i \in 1..Len(report) : report[i].ret = report[i].err

\* The status update was sent and refused; the error came back all the same.
C9_Witness ==
    \E i \in 1..Len(report) :
        /\ report[i].client # Nil
        /\ report[i].outcome = "conflict"
        /\ report[i].ret = report[i].err

\* C10: a status update, of a copy of the target with the reason and message
\* of the error, is sent if and only if a client is configured; a warning
\* event "Failed"+eventAction is emitted if and only if eventAction is not
\* empty; the target itself is left as it was.
C10_StatusAndEvent ==
    \A i \in 1..Len(report) :
        LET r == report[i]
        IN  /\ Len(r.statusUpdates) = (IF r.client # Nil THEN 1 ELSE 0)
            /\ r.client # Nil =>
                  /\ r.statusUpdates[1].status = [ErrorReason |-> r.err.Reason, ErrorMessage |-> r.err.Message]
                  /\ r.statusUpdates[1].resourceVersion = r.target.resourceVersion
            /\ Len(r.events) = (IF r.eventAction # "" THEN 1 ELSE 0)
            /\ r.eventAction # "" =>
                  /\ r.events[1].type = "Warning"
                  /\ r.events[1].reason = "Failed" \o r.eventAction
                  /\ r.events[1].message = r.err.Reason
            /\ r.targetAfter = r.target

\* No client: nothing is sent, the event is emitted, the target is untouched.
C10_Witness ==
    \E i \in 1..Len(report) :
        /\ report[i].client = Nil
        /\ report[i].eventAction = "Create"
        /\ report[i].statusUpdates = <<>>
        /\ Len(report[i].events) = 1
        /\ report[i].targetAfter = report[i].target

(***************************************************************************)
(* Reuse of the cached token.                                              *)
(***************************************************************************)
\* The invocation of w has just written its token to the Cluster; now is the
\* time of that write.
Cached(w) == Done(w) /\ CacheWrites(w) = 1 /\ call[w].failed = ""

\* The times at which a later invocation may come, up to the written expiry.
LaterTimes == now .. (now + KubeadmTokenTtl * TicksPerSec)

\* An invocation that found a live token which an earlier invocation cached.
ReusedCache(w) ==
    /\ Done(w)
    /\ HasLiveCache(Snapshot(w), call[w].entry)
    /\ Snapshot(w).annotations.token[1] \in GenTokens

\* C11 as claimed: after a cache-write at time t, the cache check of every
\* invocation on the updated Cluster at a time before t + time-to-live - left
\* time hits with the token written.
C11_AsClaimed ==
    \A w \in DOMAIN call :
        Cached(w) =>
            \A u \in LaterTimes :
                u < now + (KubeadmTokenTtl - KubeadmTokenLeftTime) * TicksPerSec =>
                    CachedToken(apiCluster, u) = [hit |-> TRUE, token |-> call[w].token]

\* C11, amended: after a cache-write at time t, the cache check of every
\* invocation on the updated Cluster at a time before E - left time hits with
\* the token written, E being the expiry written: t + time-to-live cut to
\* whole seconds; and an invocation that hits returns that token, no error,
\* and mints nothing.
C11_CacheReuse ==
    \A w \in DOMAIN call :
        /\ Cached(w) =>
              \A u \in LaterTimes :
                  u < (now \div TicksPerSec) * TicksPerSec
                        + (KubeadmTokenTtl - KubeadmTokenLeftTime) * TicksPerSec =>
                      CachedToken(apiCluster, u) = [hit |-> TRUE, token |-> call[w].token]
        /\ ReusedCache(w) =>
              /\ call[w].ret = [token |-> Snapshot(w).annotations.token[1], err |-> Nil]
              /\ Count(call[w].calls, "GenerateBootstrapToken") = 0
              /\ call[w].secret = <<>>

\* A later invocation, at a later time, returned the token an earlier one cached.
C11_Witness ==
    \E w \in DOMAIN call :
        /\ ReusedCache(w)
        /\ call[w].entry > 0
        /\ ncalls >= 2
        /\ call[w].ret.token = apiCluster.annotations.token[1]
        /\ call[w].calls = <<>>

(***************************************************************************)
(* No retry.                                                               *)
(***************************************************************************)
\* Every remote write is issued at most once, and a failed cache-write leaves
\* the stored annotations as they were.
OneAttemptEach(w) ==
    /\ Count(call[w].calls, "Clusters.Update") <= 1
    /\ Count(call[w].calls, "Secrets.Create") <= 1
    /\ Count(call[w].calls, "Secrets.Update") <= 1
    /\ Done(w) /\ call[w].failed = "cachewrite" =>
          /\ apiCluster = call[w].storedBefore[1]
          /\ apiCluster.annotations = Snapshot(w).annotations

\* C12 as claimed: no remote write is repeated within an invocation, a failed
\* cache-write changes nothing in the stored annotations, and the invocation
\* that follows a failed cache-write mints a new token.
C12_AsClaimed ==
    \A w \in DOMAIN call :
        /\ OneAttemptEach(w)
        /\ Done(w) /\ call[w].afterFailed => Minted(w) = 1

\* C12, amended: no remote write is repeated within an invocation, a failed
\* cache-write changes nothing in the stored annotations, and the invocation
\* that follows a failed cache-write finds no live cached token: it goes to
\* the control-plane lookup and mints a new token when the lookup, the
\* kubeconfig retrieval and the mint/persist step succeed.
C12_NoRetry ==
    \A w \in DOMAIN call :
        /\ OneAttemptEach(w)
        /\ Done(w) /\ call[w].afterFailed =>
              /\ ~HasLiveCache(Snapshot(w), call[w].entry)
              /\ call[w].calls # <<>>
              /\ call[w].calls[1] = "GetControlPlaneMachinesForCluster"
              /\ call[w].failed \notin {"lookup", "kubeconfig", "mint"} =>
                    /\ Minted(w) = 1
                    /\ call[w].ret.token = call[w].token

\* The cache-write of one invocation met a conflict; the next invocation
\* minted a token again and cached it.
C12_Witness ==
    \E w \in DOMAIN call :
        /\ Done(w)
        /\ call[w].afterFailed
        /\ otherWrites = 1
        /\ Minted(w) = 1
        /\ Count(call[w].calls, "Clusters.Update") = 1
        /\ call[w].failed = ""

(***************************************************************************)
(* Other writers of the Cluster.                                           *)
(***************************************************************************)
\* The invocation of w sent its cache-write after another writer had updated
\* the Cluster it read.
WroteStale(w) ==
    /\ Done(w)
    /\ CacheWrites(w) = 1
    /\ call[w].storedBefore[1].resourceVersion # Snapshot(w).resourceVersion

\* C13: a cache-write sent after another writer updated the Cluster carries
\* the version and the fields of the snapshot, is refused, leaves the stored
\* Cluster with the other writer's update, and the invocation returns the
\* token it minted; no update of another writer is ever undone.
C13_StaleWriteRejected ==
    /\ apiCluster.spec = otherWrites % 2
    /\ \A w \in DOMAIN call :
          WroteStale(w) =>
              /\ call[w].clusterArg[1].resourceVersion = Snapshot(w).resourceVersion
              /\ call[w].clusterArg[1].spec = Snapshot(w).spec
              /\ call[w].failed = "cachewrite"
              /\ call[w].ret.err # Nil
              /\ apiCluster = call[w].storedBefore[1]
              /\ call[w].ret.token = call[w].token
              /\ call[w].ret.token \in GenTokens

\* Another writer changed the Cluster between the snapshot and the
\* cache-write; the write met the version conflict and the token came back.
C13_Witness ==
    \E w \in DOMAIN call :
        /\ WroteStale(w)
        /\ apiCluster.spec # Snapshot(w).spec
        /\ call[w].ret.err = "the object has been modified"
        /\ call[w].ret.token \in GenTokens

(***************************************************************************)
(* The cached token and the Secret store.                                  *)
(***************************************************************************)
\* C14: with two workers on the same Cluster, whatever the interleaving and
\* the failures, a token of this code in the annotation of the stored Cluster
\* names a Secret in the store, and every invocation that wrote a token to
\* the annotation had, before that, the Secret of that very token stored by a
\* Create or an Update that succeeded.
C14_CacheBacked ==
    /\ Len(apiCluster.annotations.token) = 1 /\ apiCluster.annotations.token[1] \in GenTokens =>
          SecretOfToken(apiCluster.annotations.token[1]) # {}
    /\ \A w \in DOMAIN call :
          Done(w) /\ CacheWrites(w) = 1 =>
              /\ call[w].createRes = "ok" \/ call[w].updateRes = "ok"
              /\ \E s \in call[w].after : TokenOf(s) = call[w].clusterArg[1].annotations.token[1]

\* Two invocations missed the cache at the same time and minted different
\* tokens; one has cached its token while the other is about to.
C14_Witness ==
    \E w, v \in DOMAIN call :
        /\ w # v
        /\ Done(w)
        /\ CacheWrites(w) = 1
        /\ call[w].failed = ""
        /\ apiCluster.annotations.token = <<call[w].token>>
        /\ call[v].pc = "cachewrite"
        /\ call[v].token # call[w].token

(***************************************************************************)
(* The order of the remote calls and the failure paths.                    *)
(***************************************************************************)
IsPrefix(s, t) == Len(s) <= Len(t) /\ SubSeq(t, 1, Len(s)) = s

\* The remote calls of an invocation that meets no failure, without and with
\* the Update of a Secret that exists.
CallOrder ==
    {<<"GetControlPlaneMachinesForCluster", "GetKubeConfig", "GenerateBootstrapToken",
       "Secrets.Create", "Clusters.Update">>,
     <<"GetControlPlaneMachinesForCluster", "GetKubeConfig", "GenerateBootstrapToken",
       "Secrets.Create", "Secrets.Update", "Clusters.Update">>}

InOrder(w) == \E o \in CallOrder : IsPrefix(call[w].calls, o)

NothingMinted(w) ==
    /\ call[w].token = <<>>
    /\ call[w].secret = <<>>
    /\ Count(call[w].calls, "Secrets.Create") = 0
    /\ Count(call[w].calls, "Secrets.Update") = 0
    /\ call[w].createArg = <<>>
    /\ call[w].updateArg = <<>>

NoCacheWrite(w) == CacheWrites(w) = 0 /\ call[w].clusterArg = <<>>

\* What the claim lists for the failures of the lookup, of the kubeconfig
\* retrieval and of the generation.
EarlyFailures(w) ==
    /\ call[w].lookupRes \in {"err", "empty"} =>
          /\ Done(w)
          /\ call[w].calls = <<"GetControlPlaneMachinesForCluster">>
          /\ NothingMinted(w)
          /\ NoCacheWrite(w)
    /\ call[w].kubeconfigRes = "err" =>
          /\ Done(w)
          /\ call[w].calls = <<"GetControlPlaneMachinesForCluster", "GetKubeConfig">>
          /\ NothingMinted(w)
          /\ NoCacheWrite(w)
    /\ call[w].generateRes \in {"err", "empty"} =>
          /\ Done(w)
          /\ Len(call[w].calls) = 3
          /\ NothingMinted(w)
          /\ NoCacheWrite(w)

Succeeded(w) == Done(w) /\ call[w].ret.token # <<>> /\ call[w].ret.err = Nil

\* C16: when the reconciler calls GetKubeadmToken again after every error
\* and no collaborator fails for ever, some invocation returns a token and
\* no error.
C16_EventualSuccess == <>Succeeded(Reconciler)

\* After an invocation whose cache-write failed, the next one returned a
\* token it minted, and no error.
C16_Witness ==
    /\ Succeeded(Reconciler)
    /\ call[Reconciler].afterFailed
    /\ call[Reconciler].ret.token = call[Reconciler].token

(***************************************************************************)
(* The Cluster that was passed in and the copy that is sent.               *)
(***************************************************************************)
\* C17: the Cluster the invocation was given stays as it was given; what is
\* sent to Clusters(ns).Update is that Cluster with the token annotation set
\* to the minted token and the expiry annotation set to the time of writing
\* plus the time-to-live in RFC3339, every other field and annotation as in
\* the snapshot; when the Update succeeds, that is what is stored.
C17_CopyOnly ==
    \A w \in DOMAIN call :
        /\ call[w].cluster = call[w].given
        /\ call[w].clusterArg # <<>> =>
              LET c == Snapshot(w)
                  n == call[w].clusterArg[1]
              IN  /\ Done(w)
                  /\ n = [c EXCEPT !.annotations.nil = FALSE,
                                   !.annotations.token = <<call[w].token>>,
                                   !.annotations.expiry =
                                        <<FormatRFC3339(now + KubeadmTokenTtl * TicksPerSec)>>]
                  /\ n.annotations.other = c.annotations.other
                  /\ n.spec = c.spec
                  /\ n.status = c.status
                  /\ n.resourceVersion = c.resourceVersion
                  /\ call[w].failed = "" =>
                        /\ apiCluster.annotations = n.annotations
                        /\ apiCluster.spec = n.spec

\* A Cluster with an unreadable expiry and an annotation of someone else was
\* passed in; the copy sent carries the new token and that other annotation,
\* and the Cluster passed in still carries the old token.
C17_Witness ==
    \E w \in DOMAIN call :
        /\ Done(w)
        /\ call[w].clusterArg # <<>>
        /\ Snapshot(w).annotations.other = <<"v">>
        /\ Snapshot(w).annotations.token = <<OldToken>>
        /\ call[w].clusterArg[1].annotations.other = <<"v">>
        /\ call[w].clusterArg[1].annotations.token = <<call[w].token>>
        /\ call[w].token \in GenTokens

(***************************************************************************)
(* The token returned by the mint step and the Secret written for it.      *)
(***************************************************************************)
\* The Secret that the Create or the Update that succeeded carried.
Written(w) ==
    IF call[w].createRes = "ok" THEN call[w].createArg[1] ELSE call[w].updateArg[1]

\* C18: when the mint step has returned a token, the Secret written to the
\* store has the name made from the first six characters of the token, its
\* identifier and secret are the token before and after the separator, both
\* usage flags are "true", its expiration is the minting time plus the
\* time-to-live in RFC3339, and it is what the store holds under that name.
C18_TokenMatchesRecord ==
    \A w \in DOMAIN call :
        Upserted(w) =>
            LET s == Written(w)
                token == call[w].token
            IN  /\ token = s.data.token_id \o <<".">> \o s.data.token_secret
                /\ Len(s.data.token_id) = BootstrapTokenIDBytes
                /\ s.data.token_id = SubSeq(token, 1, BootstrapTokenIDBytes)
                /\ s.name = BootstrapTokenSecretName(s.data.token_id)
                /\ s.namespace = "kube-system"
                /\ s.data.usage_bootstrap_authentication = "true"
                /\ s.data.usage_bootstrap_signing = "true"
                /\ s.data.expiration = [fmt |-> "RFC3339", sec |-> call[w].mintSec + KubeadmTokenTtl]
                /\ call[w].after = {s}

\* A Secret of the same identifier existed; the mint step replaced it and
\* returned the token of the new one.
C18_Witness ==
    \E w \in DOMAIN call :
        /\ Upserted(w)
        /\ call[w].updateRes = "ok"
        /\ call[w].before # {}
        /\ call[w].before # call[w].after
        /\ TokenOf(Written(w)) = call[w].token

====
